---------------------------- MODULE Spec2Model ----------------------------
(***************************************************************************)
(* Batch spectral-data merge engine of ecosys_curator.py.                  *)
(*                                                                         *)
(* The model follows the background worker thread                          *)
(* (batch_processing_worker -> process_single_batch_threaded ->            *)
(* process_single_file_streaming_safe), the GUI thread's handlers that     *)
(* touch the same objects (BatchProgressDialog.on_cancel, on_timer_update, *)
(* EcosysAPICurator.on_close) and the shared dictionary batch_progress.    *)
(* Every access of the worker to an object the GUI thread also uses is a   *)
(* step of its own, named after the source line it models (W3210 is line   *)
(* 3210).  Code that works on thread-local objects only (the output        *)
(* stream, the memory monitor of the batch) is one step per call.          *)
(*                                                                         *)
(* The environment supplies: the input files, the answers of               *)
(* MemoryMonitor.should_pause_processing, and I/O errors of open/write.    *)
(***************************************************************************)
EXTENDS Integers, Sequences, FiniteSets, TLC

(***************************************************************************)
(* Bounds of the model.                                                    *)
(***************************************************************************)
MaxFiles == 3
MaxFilesPerBatch == 2
MaxRecords == 2
MaxFaults == 1
MaxBadFiles == 1
MaxRuns == 2

(***************************************************************************)
(* Program constants of process_single_file_streaming_safe.                *)
(***************************************************************************)
LargeDatasetCount == 5000
LargeMemoryIncreaseMB == 200
LargeChunkSize == 25
LargeMaxSpectra == 2000
ModerateDatasetCount == 1000
ModerateChunkSize == 100
LenientSpectra == 500
\* line 3384: os.path.getsize(filepath) > 100
MinFileBytes == 100
\* line 3399: available_gb * 0.2
SafeTenths == 2
\* line 3404: estimated_mb_per_file * 2.5
ExpansionTenths == 25

Min(a, b) == IF a < b THEN a ELSE b
Max(a, b) == IF a > b THEN a ELSE b

(***************************************************************************)
(* Input files.  A file is described by what json.load and the two         *)
(* data.get calls make of it:                                              *)
(*   ok              an object whose "spectra" is a list of n records      *)
(*   truncated       json.load raises (truncated, or not JSON at all)      *)
(*   not_object      valid JSON whose top level is no object: data.get     *)
(*                   raises AttributeError                                 *)
(*   no_spectra      an object without "spectra", or with an empty or null *)
(*                   one                                                   *)
(*   spectra_number  "spectra" is a non-zero number: len() raises          *)
(*   spectra_object  "spectra" is an object of n members: len() is n and   *)
(*                   spectra[0] raises KeyError                            *)
(*   spectra_string  "spectra" is a string of n characters: len() is n and *)
(*                   spectra[i] is a one-character string                  *)
(***************************************************************************)
OkFile(n) == [kind |-> "ok", n |-> n]
BadKinds == {"truncated", "not_object", "no_spectra", "spectra_number",
             "spectra_object", "spectra_string"}
BadFile(k) == [kind |-> k, n |-> IF k \in {"spectra_object", "spectra_string"} THEN 1 ELSE 0]
BadFiles == {BadFile(k) : k \in BadKinds}

\* The record count of a well-formed file at place j of the input list:
\* 1, 2, ..., MaxRecords, 1, ...
RecordsAt(j) == 1 + ((j - 1) % MaxRecords)

\* The input lists: 1..MaxFiles files, at most MaxBadFiles of them not
\* well-formed.
InputLists ==
  UNION {{fs \in [1..n -> {OkFile(r) : r \in 1..MaxRecords} \cup BadFiles] :
            /\ \A j \in 1..n : fs[j].kind = "ok" => fs[j].n = RecordsAt(j)
            /\ Cardinality({j \in 1..n : fs[j] \in BadFiles}) <= MaxBadFiles} :
         n \in 1..MaxFiles}

(***************************************************************************)
(* The output stream as the sequence of its write groups.                  *)
(***************************************************************************)
BatchHeader == <<"batch_header", 0, 0>>
BatchFooter == <<"batch_footer", 0, 0>>
EntryComma == <<"entry_comma", 0, 0>>
EntryHeader(count) == <<"entry_header", count, 0>>
EntryFooter == <<"entry_footer", 0, 0>>
Records(n, lead) == <<"records", n, lead>>

(***************************************************************************)
(* JSON well-formedness of a batch file: a scanner over the write groups.  *)
(*   {hdr "datasets": [ entry (, entry)* ] }   entry = { ... "spectra": [  *)
(*   rec (, rec)* ] }                                                      *)
(***************************************************************************)
ScanStep(st, tok) ==
  CASE st = "start" /\ tok = BatchHeader -> "list_empty"
    [] st \in {"list_empty", "after_comma"} /\ tok[1] = "entry_header" -> "entry_empty"
    [] st = "entry_empty" /\ tok[1] = "records" /\ tok[3] = 0 -> "entry_records"
    [] st = "entry_records" /\ tok[1] = "records" /\ tok[3] = 1 -> "entry_records"
    [] st \in {"entry_empty", "entry_records"} /\ tok = EntryFooter -> "after_entry"
    [] st = "after_entry" /\ tok = EntryComma -> "after_comma"
    [] st \in {"list_empty", "after_entry"} /\ tok = BatchFooter -> "end"
    [] OTHER -> "bad"

RECURSIVE Scan(_, _)
Scan(st, toks) ==
  IF toks = <<>> THEN st ELSE Scan(ScanStep(st, Head(toks)), Tail(toks))

ValidJSON(toks) == Scan("start", toks) = "end"

RECURSIVE CountKind(_, _)
CountKind(toks, kind) ==
  IF toks = <<>> THEN 0
  ELSE (IF Head(toks)[1] = kind THEN 1 ELSE 0) + CountKind(Tail(toks), kind)

EntryCount(toks) == CountKind(toks, "entry_header")

RECURSIVE RecordCount(_)
RecordCount(toks) ==
  IF toks = <<>> THEN 0
  ELSE (IF Head(toks)[1] = "records" THEN Head(toks)[2] ELSE 0) + RecordCount(Tail(toks))

(***************************************************************************)
(* process_single_file_streaming_safe                                      *)
(***************************************************************************)
\* lines 3074-3086: <<chunk_size, max_spectra>>
ChunkPlan(spectra_count, memory_increase) ==
  IF spectra_count > LargeDatasetCount /\ memory_increase > LargeMemoryIncreaseMB
  THEN <<LargeChunkSize, Min(spectra_count, LargeMaxSpectra)>>
  ELSE IF spectra_count > ModerateDatasetCount
       THEN <<ModerateChunkSize, spectra_count>>
       ELSE <<spectra_count, spectra_count>>

\* The environment of one call: the answers of should_pause_processing and
\* the write that raises.
\*   pause0      the answer at line 3036
\*   pauseFrom   the chunk (1, 2, ...) from which line 3096 is answered TRUE; 0: never
\*   increase    post_load_memory - initial_memory (MB)
\*   fault       <<"none",0>>, <<"comma",0>>, <<"header",0>>, <<"chunk",c>>, <<"close",0>>:
\*               the write group that raises OSError
NoFault == <<"none", 0>>

\* lines 3094-3125: the chunk loop, chunk c = 1, 2, ... starting at record
\* (c - 1) * chunk_size with that many records written.  The loop is left at
\* the first chunk at which line 3096 breaks or a line of 3104-3109 raises.
\* [written, raised]
WriteChunks(f, limit, chunk_size, env) ==
  LET chunks == 1..((limit + chunk_size - 1) \div chunk_size)
      writtenAt(c) == (c - 1) * chunk_size
      breaks(c) == writtenAt(c) > LenientSpectra /\ env.pauseFrom > 0
                   /\ c >= env.pauseFrom                                  \* 3096-3098
      raises(c) == f.kind = "spectra_object" \/ env.fault = <<"chunk", c>> \* 3104-3109
      left == {c \in chunks : breaks(c) \/ raises(c)}
      first == CHOOSE c \in left : \A d \in left : c <= d
  IN IF left = {}
     THEN [written |-> limit, raised |-> FALSE]
     ELSE [written |-> writtenAt(first), raised |-> ~breaks(first)]

\* lines 3103-3109: the records written, separated by commas
RecordsWritten(written) == IF written > 0 THEN <<Records(written, 0)>> ELSE <<>>

\* lines 3127-3143 and the handlers 3145-3160
EntryClose == <<EntryFooter>>

\* lines 3025-3170.  [toks: what the call appended, ret: its return value,
\* io: an I/O error was raised]
ProcessFile(f, is_first_dataset, env) ==
  LET nothing == [toks |-> <<>>, ret |-> 0, io |-> FALSE]
      plan == ChunkPlan(f.n, env.increase)
      limit == Min(plan[2], f.n)
      t1 == IF is_first_dataset THEN <<>> ELSE <<EntryComma>>             \* 3059-3060
      t2 == Append(t1, EntryHeader(Min(plan[2], f.n)))                    \* 3063-3089
      w == WriteChunks(f, limit, plan[1], env)
      t3 == t2 \o RecordsWritten(w.written)
  IN IF env.pause0 THEN nothing                                           \* 3036-3038
     ELSE IF f.kind \in {"truncated", "not_object"} THEN nothing          \* 3041-3045 -> 3154
     ELSE IF f.kind = "no_spectra" THEN nothing                           \* 3047-3049
     ELSE IF f.kind = "spectra_number" THEN nothing                       \* 3055 -> 3154
     ELSE IF (~is_first_dataset) /\ env.fault = <<"comma", 0>>
     THEN [toks |-> <<>>, ret |-> 0, io |-> TRUE]                         \* 3060 -> 3154
     ELSE IF env.fault = <<"header", 0>>
     THEN [toks |-> t1, ret |-> 0, io |-> TRUE]                           \* 3063-3089 -> 3154
     ELSE IF w.raised
     THEN [toks |-> t3, ret |-> 0, io |-> f.kind # "spectra_object"]  \* -> 3154-3160
     ELSE IF env.fault = <<"close", 0>>
     THEN [toks |-> t3, ret |-> 0, io |-> TRUE]                       \* 3127 -> 3154
     ELSE [toks |-> t3 \o EntryClose, ret |-> w.written, io |-> FALSE] \* 3127-3143

\* The environments worth telling apart for file f.
FileEnvs(f, is_first_dataset, mayFault) ==
  LET plan == ChunkPlan(f.n, LargeMemoryIncreaseMB + 1)
      chunks == IF f.n = 0 THEN 0 ELSE ((Min(plan[2], f.n) + plan[1] - 1) \div plan[1])
      faults == {NoFault} \cup
                (IF mayFault /\ f.n > 0
                 THEN {<<"header", 0>>, <<"close", 0>>}
                      \cup {<<"chunk", c>> : c \in 1..chunks}
                      \cup (IF is_first_dataset THEN {} ELSE {<<"comma", 0>>})
                 ELSE {})
  IN {[pause0 |-> p, pauseFrom |-> pf, increase |-> inc, fault |-> ft] :
        p \in BOOLEAN,
        pf \in (IF f.n > LenientSpectra THEN 0..chunks ELSE {0}),
        inc \in (IF f.n > LargeDatasetCount
                 THEN {LargeMemoryIncreaseMB, LargeMemoryIncreaseMB + 1}
                 ELSE {0}),
        ft \in faults}


(***************************************************************************)
(* State.                                                                  *)
(*   merge_state              a MergeState and the two files beside its    *)
(*                            output file                                  *)
(*   call                     one call of process_single_file_streaming_   *)
(*                            safe: its arguments, what it wrote, what it  *)
(*                            returned                                     *)
(*   run                      the merge runs started so far                *)
(*   second                   a second batch_processing_worker thread,     *)
(*                            started while the first one is running       *)
(*   monitor                  a MemoryMonitor, the readings of its last    *)
(*                            should_pause_processing and what it returned *)
(*   dir                      the spectra_*.json files of the download     *)
(*                            directory, in os.listdir order: size (bytes) *)
(*                            and content                                  *)
(*   available                psutil.virtual_memory().available (bytes)    *)
(*   files, files_per_batch   the arguments of batch_processing_worker     *)
(*   wpc                      where the worker thread is                   *)
(*   batch_num                its loop variable (line 3194)                *)
(*   has_progress             hasattr(self, 'batch_progress')              *)
(*   batch_progress           the shared dictionary                        *)
(*   loc                      the locals of process_single_batch_threaded  *)
(*   outputs                  the batch output files, by batch number      *)
(*   cancelled                progress_dialog.cancelled                    *)
(*   destroyed                self._destroyed                              *)
(*   ui                       where the GUI thread is inside on_cancel     *)
(*   io_errors_left           I/O errors the environment may still raise   *)
(*   hist                     what happened, for stating the properties    *)
(*   timer                    the dialog's update_timer is running         *)
(*   tpc                      where the GUI thread is in on_timer_update   *)
(*   t_batch, t_files         what on_timer_update read at lines 131, 135  *)
(*   seen                     the last (current_batch, current_file) pair  *)
(*                            on_timer_update has read                     *)
(*   percent                  the last batch_percent it has computed       *)
(*   shown                    the message box it has opened                *)
(***************************************************************************)
VARIABLES merge_state, call, run, second, monitor, dir, available, files,
          files_per_batch, wpc, batch_num,
          has_progress, batch_progress,
          loc, outputs, cancelled, destroyed, ui, io_errors_left, hist,
          timer, tpc, t_batch, t_files, seen, percent, shown, captured

inputs == <<merge_state, call, run, second, monitor, dir, available, files, files_per_batch>>
uivars == <<cancelled, destroyed, ui>>
pollvars == <<timer, tpc, t_batch, t_files, seen, percent, shown, captured>>

\* on_timer_update binds progress = parent.batch_progress once (line 128) and
\* reads that object to its end; the worker's line 3181 binds the attribute
\* to a new dict and leaves the old one to the handler that holds it.
NotCaptured == [stale |-> FALSE, dict |-> <<>>]
Progress == IF captured.stale THEN captured.dict[1] ELSE batch_progress
Rebound ==
  IF tpc # "idle" /\ ~captured.stale
  THEN [stale |-> TRUE, dict |-> <<batch_progress>>]
  ELSE captured
vars == <<merge_state, call, run, second, monitor, dir, available, files,
          files_per_batch, wpc, batch_num,
          has_progress, batch_progress,
          loc, outputs, cancelled, destroyed, ui, io_errors_left, hist,
          timer, tpc, t_batch, t_files, seen, percent, shown, captured>>

(***************************************************************************)
(* MemoryMonitor.  Percentages are in tenths of a percent (psutil reports  *)
(* one decimal), process memory and available memory in MB.                *)
(***************************************************************************)
\* line 206: the default thresholds
DefaultMemoryThreshold == 600
DefaultCriticalThreshold == 750
\* line 3312: the thresholds of process_single_batch_threaded
BatchMemoryThreshold == 400
BatchCriticalThreshold == 600
\* line 212
OomProtectionThreshold == 850
\* line 291: available_gb < 0.2, in tenths of a MB (0.2 * 1024 MB)
LowAvailableTenthsMB == 2048
\* line 301
MaxGrowthMB == 500
\* line 302
MaxCurrentMB == 800

\* A reading of the OS: <<the query succeeded, its value>>
FailedQuery == <<FALSE, 0>>

\* lines 217-243: a getter returns the value, or 0 when the query raised
GetterResult(q) == IF q[1] THEN q[2] ELSE 0

\* lines 285, 300: system_percent > threshold
AboveThreshold(value, threshold) == value > threshold

\* lines 277-311.  The getters catch what the queries raise, so nothing
\* raises inside the try block and the handler at 308-311 is never entered.
ShouldPause(m, sys, cur, avail) ==
  LET system_percent == GetterResult(sys)
      current_memory_mb == GetterResult(cur)
      available_mb == GetterResult(avail)
      memory_growth_mb == current_memory_mb - m.initial_memory_mb
  IN IF AboveThreshold(system_percent, OomProtectionThreshold) THEN TRUE   \* 285-288
     ELSE IF available_mb * 10 < LowAvailableTenthsMB THEN TRUE           \* 291-294
     ELSE IF \/ AboveThreshold(system_percent, m.critical_threshold_percent)
             \/ memory_growth_mb > MaxGrowthMB
             \/ current_memory_mb > MaxCurrentMB
     THEN TRUE                                                            \* 300-304
     ELSE FALSE                                                           \* 306

NoMonitor == [stage |-> "none", memory_threshold_percent |-> 0,
              critical_threshold_percent |-> 0, initial_memory_mb |-> 0,
              peak_memory_mb |-> 0, sys |-> FailedQuery, cur |-> FailedQuery,
              avail |-> FailedQuery, result |-> FALSE]

\* The readings the OS gives.
SystemPercentReadings == {FailedQuery, <<TRUE, 500>>, <<TRUE, 750>>, <<TRUE, 751>>, <<TRUE, 851>>}
CurrentMBReadings == {FailedQuery, <<TRUE, 100>>, <<TRUE, 700>>, <<TRUE, 801>>}
AvailableMBReadings == {FailedQuery, <<TRUE, 100>>, <<TRUE, 202>>, <<TRUE, 1024>>}

\* lines 206-215: MemoryMonitor(...)
MonitorNew ==
  /\ monitor.stage = "new"
  /\ \E th \in {<<DefaultMemoryThreshold, DefaultCriticalThreshold>>,
                <<BatchMemoryThreshold, BatchCriticalThreshold>>},
        cur \in CurrentMBReadings :
       monitor' = [monitor EXCEPT !.stage = "ready",
                                  !.memory_threshold_percent = th[1],
                                  !.critical_threshold_percent = th[2],
                                  !.peak_memory_mb = GetterResult(cur),
                                  !.initial_memory_mb = GetterResult(cur)]
  /\ UNCHANGED <<merge_state, call, run, second, dir, available, files, files_per_batch,
                 wpc, batch_num, has_progress,
                 batch_progress, loc, outputs, uivars, io_errors_left, hist, pollvars>>

\* lines 277-311: should_pause_processing()
ShouldPauseProcessing ==
  /\ monitor.stage \in {"ready", "asked"}
  /\ \E sys \in SystemPercentReadings, cur \in CurrentMBReadings,
        avail \in AvailableMBReadings :
       monitor' = [monitor EXCEPT !.stage = "asked",
                                  !.sys = sys, !.cur = cur, !.avail = avail,
                                  !.peak_memory_mb = Max(@, GetterResult(cur)),
                                  !.result = ShouldPause(monitor, sys, cur, avail)]
  /\ UNCHANGED <<merge_state, call, run, second, dir, available, files, files_per_batch,
                 wpc, batch_num, has_progress,
                 batch_progress, loc, outputs, uivars, io_errors_left, hist, pollvars>>

(***************************************************************************)
(* MergeState.  Its four state fields, and the two files beside the output *)
(* file: the .merge_state sidecar and the .temp file.  The sidecar is      *)
(* "missing", "unreadable" (open() or json.load raises), "not_object"      *)
(* (JSON, but no object: it has no get), or an "object"; of an object each *)
(* of the four keys is absent (<<>>) or holds a value (<<v>>).             *)
(***************************************************************************)
\* lines 479-482
FreshFields == [current_file_index |-> 0, successful_files |-> 0,
                total_spectra |-> 0, completed_files |-> <<>>]

NoData == [current_file_index |-> <<>>, successful_files |-> <<>>,
           total_spectra |-> <<>>, completed_files |-> <<>>]

NoSidecar == [kind |-> "missing", data |-> NoData]

NoMergeState == [stage |-> "none", fields |-> FreshFields, before |-> FreshFields,
                 sidecar |-> NoSidecar, temp |-> FALSE, result |-> FALSE]

\* dict.get(key, default)
Get(entry, default) == IF entry = <<>> THEN default ELSE entry[1]

\* lines 509-512
Loaded(data) ==
  [current_file_index |-> Get(data.current_file_index, 0),
   successful_files |-> Get(data.successful_files, 0),
   total_spectra |-> Get(data.total_spectra, 0),
   completed_files |-> Get(data.completed_files, <<>>)]

\* lines 487-493: the object save_state writes
Saved(fields) ==
  [current_file_index |-> <<fields.current_file_index>>,
   successful_files |-> <<fields.successful_files>>,
   total_spectra |-> <<fields.total_spectra>>,
   completed_files |-> <<fields.completed_files>>]

\* The sidecars and .temp files a MergeState may find on disk.
SidecarObjects ==
  [current_file_index : {<<>>, <<1>>, <<2>>},
   successful_files : {<<>>, <<1>>, <<2>>},
   total_spectra : {<<>>, <<3>>, <<5>>},
   completed_files : {<<>>, <<<<"a">>>>, <<<<"a", "b">>>>}]

Sidecars ==
  {[kind |-> k, data |-> NoData] : k \in {"missing", "unreadable", "not_object"}}
  \cup {[kind |-> "object", data |-> d] : d \in SidecarObjects}

\* No call of process_single_file_streaming_safe under study.
NoCall == [stage |-> "none", f |-> OkFile(0), is_first_dataset |-> TRUE,
           env |-> [pause0 |-> FALSE, pauseFrom |-> 0, increase |-> 0, fault |-> NoFault],
           toks |-> <<>>, ret |-> 0]

\* line 3178 (and 3282)
TotalBatches == (Len(files) + files_per_batch - 1) \div files_per_batch

\* A slice that starts one file early.
StartIdx_Overlapping(n) == IF n = 0 THEN 0 ELSE n * files_per_batch - 1

\* line 3205
StartIdx(n) == n * files_per_batch

\* line 3206
EndIdx(n) == Min(StartIdx(n) + files_per_batch, Len(files))

\* line 3207: spectra_files[start_idx:end_idx]
BatchFiles(n) == SubSeq(files, StartIdx(n) + 1, EndIdx(n))

Status(kind, a, b) == <<kind, a, b>>

\* lines 3181-3192
InitialProgress(total_batches) ==
  [current_batch |-> 0, total_batches |-> total_batches, current_file |-> 0,
   current_batch_files |-> 0, successful_batches |-> 0, total_datasets |-> 0,
   total_spectra |-> 0,
   current_status |-> Status("Starting batch processing...", 0, 0),
   completed |-> FALSE, error |-> "None"]

NoFile == [exists |-> FALSE, closed |-> FALSE, toks |-> <<>>]
NoLocals == [i |-> 0, datasets_processed |-> 0, total_spectra |-> 0,
             first_dataset |-> TRUE, ret |-> <<0, 0>>]

\* attempted, returned: the batches process_single_batch_threaded was called
\*   for, and has returned for;  failed: those it returned from through its
\*   handler (line 3363);  io: those in which an I/O error was raised;
\* openError: the batches whose open() raised;
\* pausedAt[b]: the files of batch b done when should_pause_processing first
\*   answered TRUE at line 3337 (-1: it never did);
\* earlyPause: the batches in which it answered TRUE at line 3036;
\* cancelInBatch: the batch in progress when on_cancel set cancelled (0: none);
\* batchOrder: the batches in the order of the calls at line 3217;
\* fileOrder: <<batch, place in spectra_files>> of the files in the order of
\*   the calls at line 3342;
\* recordError: the calls in which the write of a record (line 3109) raised:
\*   the place of the file, what the call returned, whether it closed the
\*   entry it had begun;
\* filesAfterCancel, batchesAfterCancel: a file (a batch) was started with
\*   cancelled set.
NoHist == [attempted |-> {}, returned |-> {}, failed |-> {}, io |-> {},
           openError |-> {}, pausedAt |-> <<>>, earlyPause |-> {}, cancelInBatch |-> 0,
           filesAfterCancel |-> FALSE, batchesAfterCancel |-> FALSE,
           batchOrder |-> <<>>, fileOrder |-> <<>>, recordError |-> {}]

InitWith(fs, fpb, io_errors) ==
  /\ merge_state = NoMergeState
  /\ call = NoCall
  /\ run = 1
  /\ second = "none"
  /\ monitor = NoMonitor
  /\ dir = <<>>
  /\ available = 0
  /\ files = fs
  /\ files_per_batch = fpb
  /\ wpc = "idle"
  /\ batch_num = 0
  /\ has_progress = FALSE
  /\ batch_progress = InitialProgress(0)
  /\ loc = NoLocals
  /\ outputs = [b \in 1..((Len(fs) + fpb - 1) \div fpb) |-> NoFile]
  /\ cancelled = FALSE
  /\ destroyed = FALSE
  /\ ui = "idle"
  /\ io_errors_left = io_errors
  /\ hist = [NoHist EXCEPT !.pausedAt = [b \in 1..((Len(fs) + fpb - 1) \div fpb) |-> -1]]
  /\ timer = FALSE
  /\ tpc = "idle"
  /\ t_batch = 0
  /\ t_files = 0
  /\ seen = <<0, 0>>
  /\ percent = 0
  /\ shown = "none"
  /\ captured = NotCaptured

\* A run in which open() and write() may raise.
Init == \E fs \in InputLists, fpb \in 1..MaxFilesPerBatch : InitWith(fs, fpb, MaxFaults)

\* The directory listings: 1..MaxFiles files; a file of more than
\* MinFileBytes bytes is well-formed, with RecordsAt(j) records at place j,
\* a file of 0 bytes is empty (json.load would raise).
DirSizes == {0, 1024, 10240, 30720}
DirEntry(size, j) ==
  [size |-> size,
   file |-> IF size > MinFileBytes THEN OkFile(RecordsAt(j)) ELSE BadFile("truncated")]
DirLists ==
  UNION {{[j \in 1..n |-> DirEntry(sz[j], j)] : sz \in [1..n -> DirSizes]} : n \in 1..MaxFiles}

\* The readings of psutil.virtual_memory().available: none, 300 000 bytes, 100 MB.
AvailableChoices == {0, 300000, 104857600}

\* The state when on_merge_local_spectra is called; no open() and no
\* write() raises.
InitPlan ==
  /\ merge_state = NoMergeState
  /\ call = NoCall
  /\ run = 1
  /\ second = "none"
  /\ monitor = NoMonitor
  /\ dir \in DirLists
  /\ available \in AvailableChoices
  /\ files = <<>>
  /\ files_per_batch = 1
  /\ wpc = "unplanned"
  /\ batch_num = 0
  /\ has_progress = FALSE
  /\ batch_progress = InitialProgress(0)
  /\ loc = NoLocals
  /\ outputs = <<>>
  /\ cancelled = FALSE
  /\ destroyed = FALSE
  /\ ui = "idle"
  /\ io_errors_left = 0
  /\ hist = NoHist
  /\ timer = FALSE
  /\ tpc = "idle"
  /\ t_batch = 0
  /\ t_files = 0
  /\ seen = <<0, 0>>
  /\ percent = 0
  /\ shown = "none"
  /\ captured = NotCaptured

\* A MemoryMonitor about to be constructed.
InitMonitor ==
  /\ merge_state = NoMergeState
  /\ call = NoCall
  /\ run = 1
  /\ second = "none"
  /\ monitor = [NoMonitor EXCEPT !.stage = "new"]
  /\ dir = <<>>
  /\ available = 0
  /\ files = <<OkFile(1)>>
  /\ files_per_batch = 1
  /\ wpc = "idle"
  /\ batch_num = 0
  /\ has_progress = FALSE
  /\ batch_progress = InitialProgress(0)
  /\ loc = NoLocals
  /\ outputs = <<NoFile>>
  /\ cancelled = FALSE
  /\ destroyed = FALSE
  /\ ui = "idle"
  /\ io_errors_left = 0
  /\ hist = NoHist
  /\ timer = FALSE
  /\ tpc = "idle"
  /\ t_batch = 0
  /\ t_files = 0
  /\ seen = <<0, 0>>
  /\ percent = 0
  /\ shown = "none"
  /\ captured = NotCaptured

\* A run in which no open() and no write() raises.
InitNoIOError == \E fs \in InputLists, fpb \in 1..MaxFilesPerBatch : InitWith(fs, fpb, 0)

\* The worker is inside process_single_batch_threaded.
InBatch == wpc \in {"w3333", "w3334", "w3337", "w3359"}

(***************************************************************************)
(* on_merge_local_spectra: the scan of the directory and the planning.     *)
(* The code computes with floats in MB and GB; the quotient is taken here  *)
(* over the same quantities in bytes:                                      *)
(*   safe_memory_mb / (estimated_mb_per_file * 2.5)                        *)
(*     = (available * 0.2) / ((total / n) * 2.5)                           *)
(*     = (SafeTenths * available * n) / (ExpansionTenths * total)          *)
(***************************************************************************)
\* lines 3379-3385
RECURSIVE SpectraFiles(_)
SpectraFiles(d) ==
  IF d = <<>> THEN <<>>
  ELSE (IF Head(d).size > MinFileBytes THEN <<Head(d)>> ELSE <<>>) \o SpectraFiles(Tail(d))

\* line 3395: the sum of the sizes
RECURSIVE TotalSize(_)
TotalSize(d) == IF d = <<>> THEN 0 ELSE Head(d).size + TotalSize(Tail(d))

\* The quotient rounded up.
IntQuotient_RoundedUp(num, den) == (num + den - 1) \div den

\* line 3404: int() of a quotient of non-negative numbers
IntQuotient(num, den) == num \div den

\* line 3404: max(1, ...)
AtLeastOne(n) == Max(1, n)

\* Two files a batch, whatever the sizes and the memory.
FilesPerBatch_Two(spectra_files, avail) == 2

\* lines 3395-3404
FilesPerBatch(spectra_files, avail) ==
  AtLeastOne(IntQuotient(SafeTenths * avail * Len(spectra_files),
                         ExpansionTenths * TotalSize(spectra_files)))

\* line 3178 (and 3409)
BatchCount(n, fpb) == (n + fpb - 1) \div fpb

RECURSIVE Contents(_)
Contents(d) == IF d = <<>> THEN <<>> ELSE <<Head(d).file>> \o Contents(Tail(d))

\* lines 3367-3428, the user answering yes and choosing a directory; the
\* call of start_batch_processing_thread (3276-3300) is its last step.
OnMergeLocalSpectra ==
  /\ wpc = "unplanned"
  /\ LET spectra_files == SpectraFiles(dir) IN
     IF spectra_files = <<>>
     THEN /\ wpc' = "no_files"                                            \* 3390-3392
          /\ UNCHANGED <<files, files_per_batch, outputs, hist, cancelled, timer>>
     ELSE LET fpb == FilesPerBatch(spectra_files, available)
              tb == BatchCount(Len(spectra_files), fpb)
          IN /\ files' = Contents(spectra_files)
             /\ files_per_batch' = fpb
             /\ outputs' = [b \in 1..tb |-> NoFile]
             /\ hist' = [NoHist EXCEPT !.pausedAt = [b \in 1..tb |-> -1]]
             /\ cancelled' = FALSE
             /\ timer' = TRUE
             /\ wpc' = "w3178"
  /\ UNCHANGED <<merge_state, call, run, second, monitor, dir, available, batch_num,
                 has_progress, batch_progress, loc,
                 destroyed, ui, io_errors_left, tpc, t_batch, t_files, seen,
                 percent, shown, captured>>

(***************************************************************************)
(* GUI thread                                                              *)
(***************************************************************************)
\* lines 3276-3300 (the dialog's constructor sets cancelled, line 114)
StartThread ==
  /\ wpc = "idle" /\ ~destroyed
  /\ cancelled' = FALSE
  /\ timer' = TRUE
  /\ wpc' = "w3178"
  /\ UNCHANGED <<inputs, batch_num, has_progress, batch_progress, loc, outputs,
                 destroyed, ui, io_errors_left, hist, tpc, t_batch, t_files, seen,
                 percent, shown, captured>>

\* lines 167-171: the user confirmed
OnCancel171 ==
  /\ wpc # "idle" /\ ui = "idle" /\ tpc = "idle" /\ ~destroyed
  /\ cancelled' = TRUE
  /\ ui' = "c173"
  /\ hist' = [hist EXCEPT !.cancelInBatch = IF InBatch THEN batch_num + 1 ELSE @]
  /\ UNCHANGED <<inputs, wpc, batch_num, has_progress, batch_progress, loc, outputs,
                 destroyed, io_errors_left, pollvars>>

\* lines 172-175
OnCancel173 ==
  /\ ui = "c173"
  /\ batch_progress' = IF has_progress
                       THEN [batch_progress EXCEPT !.error = "Cancelled by user"]
                       ELSE batch_progress
  /\ ui' = "closed"
  /\ UNCHANGED <<inputs, wpc, batch_num, has_progress, loc, outputs, cancelled,
                 destroyed, io_errors_left, hist, pollvars>>

\* lines 651-681
OnClose ==
  /\ ~destroyed /\ ui # "c173" /\ tpc = "idle" /\ wpc # "idle"
  /\ destroyed' = TRUE
  /\ UNCHANGED <<inputs, wpc, batch_num, has_progress, batch_progress, loc, outputs,
                 cancelled, ui, io_errors_left, hist, pollvars>>

\* Every batch written to the file of batch 1.
BatchOutput_Same(n) == 1

\* line 3216: the batch file "merged_spectra_batch_{batch_num + 1:03d}.json",
\* by its number
BatchOutput(n) == n + 1

\* The first batch_processing_worker thread has been started and has not
\* returned.
WorkerAlive == wpc \notin {"idle", "unplanned", "no_files", "done", "returned"}

\* lines 3302-3306: the body is pass, the controls stay as they are (enabled)
MergeControlsEnabled(enabled) == TRUE

\* lines 3276-3300, called again (through on_merge_local_spectra, for the
\* same files) after the worker of the earlier run has returned and the
\* earlier dialog has stopped its timer: a new dialog and a new thread;
\* self.batch_progress is left as the earlier run left it.
StartSecondRun ==
  /\ wpc \in {"done", "returned"} /\ run < MaxRuns
  /\ ~destroyed /\ ~timer /\ tpc = "idle" /\ ui # "c173"
  /\ MergeControlsEnabled(TRUE)
  /\ run' = run + 1
  /\ wpc' = "w3178"
  /\ batch_num' = 0
  /\ loc' = NoLocals
  /\ hist' = [NoHist EXCEPT !.pausedAt = [b \in DOMAIN outputs |-> -1]]
  /\ cancelled' = FALSE
  /\ ui' = "idle"
  /\ timer' = TRUE
  /\ t_batch' = 0 /\ t_files' = 0 /\ seen' = <<0, 0>> /\ percent' = 0
  /\ shown' = "none"
  /\ UNCHANGED <<merge_state, call, second, monitor, dir, available, files, files_per_batch,
                 has_progress, batch_progress, outputs, destroyed, io_errors_left, tpc,
                 captured>>

\* lines 3276-3300, called again (through on_merge_local_spectra, for the
\* same files and the same output directory) while the worker is running:
\* set_merge_controls_enabled(False) at line 3289 has disabled nothing.
\* self.progress_dialog becomes a new dialog, a second thread is started.
OnMergeWhileRunning ==
  /\ WorkerAlive /\ second = "none"
  /\ ~destroyed /\ tpc = "idle" /\ ui # "c173"
  /\ MergeControlsEnabled(FALSE)
  /\ second' = "w3178"
  /\ cancelled' = FALSE
  /\ ui' = "idle"
  /\ timer' = TRUE
  /\ UNCHANGED <<merge_state, call, run, monitor, dir, available, files, files_per_batch,
                 wpc, batch_num, has_progress, batch_progress, loc, outputs, destroyed,
                 io_errors_left, hist, tpc, t_batch, t_files, seen, percent, shown, captured>>

(***************************************************************************)
(* The second batch_processing_worker thread.  Only its first steps are    *)
(* followed: the new batch_progress (lines 3178-3192) and the open() of    *)
(* the first batch file (lines 3216-3217, 3317-3326); what it does after   *)
(* them is left out, so this thread has fewer behaviours here than in the  *)
(* program.                                                                *)
(***************************************************************************)
Second3178 ==
  /\ second = "w3178"
  /\ batch_progress' = InitialProgress(TotalBatches)
  /\ has_progress' = TRUE
  /\ second' = "w3217"
  /\ captured' = Rebound
  /\ UNCHANGED <<merge_state, call, run, monitor, dir, available, files, files_per_batch,
                 wpc, batch_num, loc, outputs, uivars, io_errors_left, hist,
                 timer, tpc, t_batch, t_files, seen, percent, shown>>

Second3217 ==
  /\ second = "w3217"
  /\ outputs' = [outputs EXCEPT ![BatchOutput(0)] =
                   [exists |-> TRUE, closed |-> FALSE, toks |-> <<BatchHeader>>]]
  /\ second' = "w3333"
  /\ UNCHANGED <<merge_state, call, run, monitor, dir, available, files, files_per_batch,
                 wpc, batch_num, has_progress, batch_progress, loc, uivars,
                 io_errors_left, hist, pollvars>>

(***************************************************************************)
(* batch_processing_worker                                                 *)
(***************************************************************************)
\* lines 3178-3192
W3178 ==
  /\ wpc = "w3178"
  /\ batch_progress' = InitialProgress(TotalBatches)
  /\ has_progress' = TRUE
  /\ batch_num' = 0
  /\ wpc' = "w3196"
  /\ captured' = Rebound
  /\ UNCHANGED <<inputs, loc, outputs, uivars, io_errors_left, hist,
                 timer, tpc, t_batch, t_files, seen, percent, shown>>

\* The loop ending one batch early.
LoopEnds_OneEarly(n, total_batches) == n + 1 >= total_batches

\* The loop running one batch past the last.
LoopEnds_OneLate(n, total_batches) == n > total_batches

\* line 3194: range(total_batches) is exhausted
LoopEnds(n, total_batches) == n >= total_batches

\* lines 3194-3198
W3196 ==
  /\ wpc = "w3196"
  /\ IF LoopEnds(batch_num, TotalBatches)
     THEN wpc' = "w3234" /\ UNCHANGED batch_progress
     ELSE IF destroyed
     THEN /\ batch_progress' = [batch_progress EXCEPT !.error = "Application closing"]
          /\ wpc' = "returned"
     ELSE wpc' = "w3201" /\ UNCHANGED batch_progress
  /\ UNCHANGED <<inputs, batch_num, has_progress, loc, outputs, uivars, io_errors_left, hist, pollvars>>

\* lines 3200-3203
W3201 ==
  /\ wpc = "w3201"
  /\ IF cancelled
     THEN /\ batch_progress' = [batch_progress EXCEPT !.error = "Cancelled by user"]
          /\ wpc' = "returned"
     ELSE wpc' = "w3210" /\ UNCHANGED batch_progress
  /\ UNCHANGED <<inputs, batch_num, has_progress, loc, outputs, uivars, io_errors_left, hist, pollvars>>

W3210 ==
  /\ wpc = "w3210"
  /\ batch_progress' = [batch_progress EXCEPT !.current_batch = batch_num + 1]
  /\ wpc' = "w3211"
  /\ UNCHANGED <<inputs, batch_num, has_progress, loc, outputs, uivars, io_errors_left, hist, pollvars>>

W3211 ==
  /\ wpc = "w3211"
  /\ batch_progress' = [batch_progress EXCEPT
                          !.current_batch_files = Len(BatchFiles(batch_num))]
  /\ wpc' = "w3212"
  /\ UNCHANGED <<inputs, batch_num, has_progress, loc, outputs, uivars, io_errors_left, hist, pollvars>>

W3212 ==
  /\ wpc = "w3212"
  /\ batch_progress' = [batch_progress EXCEPT !.current_file = 0]
  /\ wpc' = "w3213"
  /\ UNCHANGED <<inputs, batch_num, has_progress, loc, outputs, uivars, io_errors_left, hist, pollvars>>

W3213 ==
  /\ wpc = "w3213"
  /\ batch_progress' = [batch_progress EXCEPT
                          !.current_status = Status("Starting batch", batch_num + 1, TotalBatches)]
  /\ wpc' = "w3217"
  /\ UNCHANGED <<inputs, batch_num, has_progress, loc, outputs, uivars, io_errors_left, hist, pollvars>>

(***************************************************************************)
(* process_single_batch_threaded                                           *)
(***************************************************************************)
\* The handler returning a count as if a dataset had been written.
BatchResultOnError_Counted == <<1, 0>>

\* line 3365
BatchResultOnError == <<0, 0>>

\* The footer left out.
BatchFooterToks_Missing == <<>>

\* line 3359
BatchFooterToks == <<BatchFooter>>

\* The loop going on whatever the monitor answers.
PauseBreaksBatch_Ignored(should_pause) == FALSE

\* lines 3337-3339
PauseBreaksBatch(should_pause) == should_pause

\* lines 3216-3217, 3312-3328: the call, open() and the batch header.
\* how: "ok", "open_error" (open raises), "header_error" (a header write raises)
W3217 ==
  /\ wpc = "w3217"
  /\ \E how \in {"ok", "open_error", "header_error"} :
       LET b == batch_num + 1 IN
       /\ how # "ok" => io_errors_left > 0
       /\ io_errors_left' = IF how = "ok" THEN io_errors_left ELSE io_errors_left - 1
       /\ outputs' = [outputs EXCEPT ![BatchOutput(batch_num)] =
                        CASE how = "ok" -> [exists |-> TRUE, closed |-> FALSE,
                                            toks |-> <<BatchHeader>>]
                          [] how = "header_error" -> [exists |-> TRUE, closed |-> TRUE,
                                                      toks |-> <<>>]
                          [] OTHER -> @]
       /\ loc' = [NoLocals EXCEPT !.ret = BatchResultOnError]
       /\ wpc' = IF how = "ok" THEN "w3333" ELSE "w3219"
       /\ hist' = [hist EXCEPT !.attempted = @ \cup {b},
                               !.batchOrder = Append(@, b),
                               !.batchesAfterCancel = @ \/ cancelled,
                               !.returned = IF how = "ok" THEN @ ELSE @ \cup {b},
                               !.failed = IF how = "ok" THEN @ ELSE @ \cup {b},
                               !.io = IF how = "ok" THEN @ ELSE @ \cup {b},
                               !.openError = IF how = "open_error" THEN @ \cup {b} ELSE @]
  /\ UNCHANGED <<inputs, batch_num, has_progress, batch_progress, uivars, pollvars>>

\* lines 3330-3333
W3333 ==
  /\ wpc = "w3333"
  /\ batch_progress' = [batch_progress EXCEPT !.current_file = loc.i + 1]
  /\ wpc' = "w3334"
  /\ hist' = [hist EXCEPT !.filesAfterCancel = @ \/ cancelled]
  /\ UNCHANGED <<inputs, batch_num, has_progress, loc, outputs, uivars, io_errors_left, pollvars>>

\* line 3334
W3334 ==
  /\ wpc = "w3334"
  /\ batch_progress' = [batch_progress EXCEPT
                          !.current_status = Status("Processing", loc.i + 1,
                                                    Len(BatchFiles(batch_num)))]
  /\ wpc' = "w3337"
  /\ UNCHANGED <<inputs, batch_num, has_progress, loc, outputs, uivars, io_errors_left, hist, pollvars>>

\* lines 3336-3356: the memory check, the file, its count
W3337 ==
  /\ wpc = "w3337"
  /\ LET b == batch_num + 1
         bf == BatchFiles(batch_num)
         f == bf[loc.i + 1]
     IN \E should_pause \in BOOLEAN,
           env \in FileEnvs(f, loc.first_dataset, io_errors_left > 0) :
          IF PauseBreaksBatch(should_pause)
          THEN /\ env.fault = NoFault /\ ~env.pause0
               /\ wpc' = "w3359"
               /\ hist' = [hist EXCEPT !.pausedAt[b] = IF @ = -1 THEN loc.i ELSE @]
               /\ UNCHANGED <<loc, outputs, io_errors_left>>
          ELSE LET r == ProcessFile(f, loc.first_dataset, env) IN
               /\ outputs' = [outputs EXCEPT ![BatchOutput(batch_num)].toks = @ \o r.toks]
               /\ loc' = [loc EXCEPT
                            !.i = @ + 1,
                            !.datasets_processed = IF r.ret > 0 THEN @ + 1 ELSE @,
                            !.total_spectra = IF r.ret > 0 THEN @ + r.ret ELSE @,
                            !.first_dataset = IF r.ret > 0 THEN FALSE ELSE @]
               /\ io_errors_left' = IF r.io THEN io_errors_left - 1 ELSE io_errors_left
               /\ hist' = [hist EXCEPT
                             !.pausedAt[b] = IF should_pause /\ @ = -1 THEN loc.i ELSE @,
                             !.fileOrder = Append(@, <<b, StartIdx(batch_num) + loc.i + 1>>),
                             !.recordError =
                                IF r.io /\ env.fault[1] = "chunk"
                                THEN @ \cup {[place |-> StartIdx(batch_num) + loc.i + 1,
                                              ret |-> r.ret,
                                              closed |-> r.toks # <<>> /\
                                                         r.toks[Len(r.toks)] = EntryFooter]}
                                ELSE @,
                             !.io = IF r.io THEN @ \cup {b} ELSE @,
                             !.earlyPause = IF env.pause0 THEN @ \cup {b} ELSE @]
               /\ wpc' = IF loc.i + 1 = Len(bf) THEN "w3359" ELSE "w3333"
  /\ UNCHANGED <<inputs, batch_num, has_progress, batch_progress, uivars, pollvars>>

\* lines 3358-3365: the footer, the close of the with block, the return
W3359 ==
  /\ wpc = "w3359"
  /\ \E ok \in BOOLEAN :
       LET b == batch_num + 1 IN
       /\ ok \/ io_errors_left > 0
       /\ io_errors_left' = IF ok THEN io_errors_left ELSE io_errors_left - 1
       /\ outputs' = [outputs EXCEPT
                        ![BatchOutput(batch_num)].toks =
                           IF ok THEN @ \o BatchFooterToks ELSE @,
                        ![BatchOutput(batch_num)].closed = TRUE]
       /\ loc' = [loc EXCEPT !.ret = IF ok THEN <<loc.datasets_processed, loc.total_spectra>>
                                     ELSE BatchResultOnError]
       /\ hist' = [hist EXCEPT !.returned = @ \cup {b},
                               !.failed = IF ok THEN @ ELSE @ \cup {b},
                               !.io = IF ok THEN @ ELSE @ \cup {b}]
  /\ wpc' = "w3219"
  /\ UNCHANGED <<inputs, batch_num, has_progress, batch_progress, uivars, pollvars>>

(***************************************************************************)
(* batch_processing_worker, after the call                                 *)
(***************************************************************************)
\* line 3219
CountsAsSuccessful(batch_datasets) == batch_datasets > 0

\* lines 3219-3220
W3219 ==
  /\ wpc = "w3219"
  /\ IF CountsAsSuccessful(loc.ret[1])
     THEN /\ batch_progress' = [batch_progress EXCEPT !.successful_batches = @ + 1]
          /\ wpc' = "w3221"
     ELSE wpc' = "w3227" /\ UNCHANGED batch_progress
  /\ UNCHANGED <<inputs, batch_num, has_progress, loc, outputs, uivars, io_errors_left, hist, pollvars>>

W3221 ==
  /\ wpc = "w3221"
  /\ batch_progress' = [batch_progress EXCEPT !.total_datasets = @ + loc.ret[1]]
  /\ wpc' = "w3222"
  /\ UNCHANGED <<inputs, batch_num, has_progress, loc, outputs, uivars, io_errors_left, hist, pollvars>>

W3222 ==
  /\ wpc = "w3222"
  /\ batch_progress' = [batch_progress EXCEPT !.total_spectra = @ + loc.ret[2]]
  /\ wpc' = "w3227"
  /\ UNCHANGED <<inputs, batch_num, has_progress, loc, outputs, uivars, io_errors_left, hist, pollvars>>

\* lines 3227-3231 and the loop's increment
W3227 ==
  /\ wpc = "w3227"
  /\ batch_progress' = [batch_progress EXCEPT
                          !.current_status = Status("Completed batch", batch_num + 1, TotalBatches)]
  /\ batch_num' = batch_num + 1
  /\ wpc' = "w3196"
  /\ UNCHANGED <<inputs, has_progress, loc, outputs, uivars, io_errors_left, hist, pollvars>>

\* line 3234
MarkCompleted(progress) == [progress EXCEPT !.completed = TRUE]

W3234 ==
  /\ wpc = "w3234"
  /\ batch_progress' = MarkCompleted(batch_progress)
  /\ wpc' = "w3235"
  /\ UNCHANGED <<inputs, batch_num, has_progress, loc, outputs, uivars, io_errors_left, hist, pollvars>>

\* lines 3235-3239
W3235 ==
  /\ wpc = "w3235"
  /\ batch_progress' = [batch_progress EXCEPT
                          !.current_status = Status("All batches completed successfully!", 0, 0)]
  /\ wpc' = "done"
  /\ UNCHANGED <<inputs, batch_num, has_progress, loc, outputs, uivars, io_errors_left, hist, pollvars>>

Worker ==
  \/ W3178 \/ W3196 \/ W3201 \/ W3210 \/ W3211 \/ W3212 \/ W3213
  \/ W3217 \/ W3333 \/ W3334 \/ W3337 \/ W3359
  \/ W3219 \/ W3221 \/ W3222 \/ W3227 \/ W3234 \/ W3235

(***************************************************************************)
(* BatchProgressDialog.on_timer_update (a handler of the GUI thread: it    *)
(* does not run inside on_cancel or on_close, and they not inside it).     *)
(***************************************************************************)
\* lines 122-131: progress['current_batch']
T131 ==
  /\ timer /\ tpc = "idle" /\ ui # "c173" /\ ~destroyed
  /\ has_progress
  /\ captured' = NotCaptured
  /\ t_batch' = batch_progress.current_batch
  /\ tpc' = "t135"
  /\ UNCHANGED <<inputs, wpc, batch_num, has_progress, batch_progress, loc, outputs,
                 uivars, io_errors_left, hist, timer, t_files, seen, percent, shown>>

\* line 135: progress['current_batch_files'] > 0
T135 ==
  /\ tpc = "t135"
  /\ t_files' = Progress.current_batch_files
  /\ tpc' = IF Progress.current_batch_files > 0 THEN "t136" ELSE "t155"
  /\ UNCHANGED <<inputs, wpc, batch_num, has_progress, batch_progress, loc, outputs,
                 uivars, io_errors_left, hist, timer, t_batch, seen, percent, shown, captured>>

\* line 136, left operand: progress['current_file']
T136 ==
  /\ tpc = "t136"
  /\ seen' = <<t_batch, Progress.current_file>>
  /\ tpc' = "t136d"
  /\ UNCHANGED <<inputs, wpc, batch_num, has_progress, batch_progress, loc, outputs,
                 uivars, io_errors_left, hist, timer, t_batch, t_files, percent, shown, captured>>

\* lines 136-137, the division by progress['current_batch_files']
T136d ==
  /\ tpc = "t136d"
  /\ percent' = (seen[2] * 100) \div Progress.current_batch_files
  /\ tpc' = "t155"
  /\ UNCHANGED <<inputs, wpc, batch_num, has_progress, batch_progress, loc, outputs,
                 uivars, io_errors_left, hist, timer, t_batch, t_files, seen, shown, captured>>

\* lines 139-160
T155 ==
  /\ tpc = "t155"
  /\ IF Progress.completed \/ Progress.error # "None"
     THEN /\ timer' = FALSE
          /\ shown' = IF Progress.completed THEN "completion" ELSE "error"
     ELSE UNCHANGED <<timer, shown>>
  /\ tpc' = "idle"
  /\ UNCHANGED <<inputs, wpc, batch_num, has_progress, batch_progress, loc, outputs,
                 uivars, io_errors_left, hist, t_batch, t_files, seen, percent, captured>>

Timer == T131 \/ T135 \/ T136 \/ T136d \/ T155

(***************************************************************************)
(* Specifications.                                                         *)
(*   Spec           the worker, on_cancel and on_close; open() and write() *)
(*                  may raise.                                             *)
(*   SpecNoIOError  the same, in an environment whose open() and write()   *)
(*                  do not raise.                                          *)
(*   SpecWorker     the worker alone (no cancellation, no close); open()   *)
(*                  and write() may raise.                                 *)
(*   SpecRun        the worker alone, which the scheduler does not starve  *)
(*                  (a started thread keeps being scheduled), in an        *)
(*                  environment whose open() and write() do not raise.     *)
(*   SpecPoll       the worker and on_timer_update.                        *)
(*   SpecPlan       on_merge_local_spectra and the worker it starts.       *)
(*   SpecMonitor    a MemoryMonitor and its should_pause_processing.       *)
(*   SpecTwoWorkers the worker, and the merge invoked again while it runs. *)
(*   SpecSecondRun  the worker, on_timer_update, and the merge invoked     *)
(*                  again after the worker has returned.                   *)
(* on_timer_update writes nothing the worker, on_cancel or on_close read,  *)
(* so the specifications without it lose none of their behaviours.         *)
(***************************************************************************)
Next == StartThread \/ OnCancel171 \/ OnCancel173 \/ OnClose \/ Worker

Spec == Init /\ [][Next]_vars

SpecNoIOError == InitNoIOError /\ [][Next]_vars

NextWorker == StartThread \/ Worker

SpecWorker == Init /\ [][NextWorker]_vars

SpecRun == InitNoIOError /\ [][NextWorker]_vars /\ WF_vars(NextWorker)

NextPoll == StartThread \/ Worker \/ Timer

SpecPoll == InitNoIOError /\ [][NextPoll]_vars

NextPlan == OnMergeLocalSpectra \/ Worker

SpecPlan == InitPlan /\ [][NextPlan]_vars

NextMonitor == MonitorNew \/ ShouldPauseProcessing

SpecMonitor == InitMonitor /\ [][NextMonitor]_vars

NextTwoWorkers == StartThread \/ OnMergeWhileRunning \/ Second3178 \/ Second3217 \/ Worker

SpecTwoWorkers == InitNoIOError /\ [][NextTwoWorkers]_vars

NextSecondRun == StartThread \/ StartSecondRun \/ Worker \/ Timer

SpecSecondRun == InitNoIOError /\ [][NextSecondRun]_vars

(***************************************************************************)
(* One call of process_single_file_streaming_safe on a file of any size.   *)
(***************************************************************************)
\* The record counts of the files: below and above the 500 records of line
\* 3096, the 1000 and the 5000 of lines 3076-3081, and the cap of 2000.
FileRecordCounts == {1, 300, 600, 1100, 2000, 5001, 6000}

\* The chunks of the loop at line 3094 for a file of n records.
ChunksOf(n, memory_increase) ==
  LET plan == ChunkPlan(n, memory_increase)
  IN IF n = 0 THEN 0 ELSE (Min(plan[2], n) + plan[1] - 1) \div plan[1]

\* The environments of a call: the memory monitor answers TRUE at line 3036
\* or not, starts to answer TRUE before chunk pauseFrom (0: never, whether
\* the code asks it or not), the load raises memory use by 200 or 201 MB, and
\* a write may raise.
CallEnvs(f) ==
  {[pause0 |-> p, pauseFrom |-> pf, increase |-> inc, fault |-> ft] :
     p \in BOOLEAN,
     pf \in 0..ChunksOf(f.n, LargeMemoryIncreaseMB + 1),
     inc \in {LargeMemoryIncreaseMB, LargeMemoryIncreaseMB + 1},
     ft \in {NoFault, <<"header", 0>>, <<"chunk", 1>>, <<"close", 0>>}}

FileCalls ==
  UNION {{[stage |-> "args", f |-> f, is_first_dataset |-> first, env |-> env,
           toks |-> <<>>, ret |-> 0] :
            first \in BOOLEAN, env \in CallEnvs(f)} :
         f \in {OkFile(n) : n \in FileRecordCounts} \cup BadFiles}

InitFileCall ==
  /\ merge_state = NoMergeState
  /\ call \in FileCalls
  /\ run = 1
  /\ second = "none"
  /\ monitor = NoMonitor
  /\ dir = <<>>
  /\ available = 0
  /\ files = <<>>
  /\ files_per_batch = 1
  /\ wpc = "idle"
  /\ batch_num = 0
  /\ has_progress = FALSE
  /\ batch_progress = InitialProgress(0)
  /\ loc = NoLocals
  /\ outputs = <<>>
  /\ cancelled = FALSE
  /\ destroyed = FALSE
  /\ ui = "idle"
  /\ io_errors_left = 0
  /\ hist = NoHist
  /\ timer = FALSE
  /\ tpc = "idle"
  /\ t_batch = 0
  /\ t_files = 0
  /\ seen = <<0, 0>>
  /\ percent = 0
  /\ shown = "none"
  /\ captured = NotCaptured

\* lines 3025-3170
ProcessSingleFileStreamingSafe ==
  /\ call.stage = "args"
  /\ LET r == ProcessFile(call.f, call.is_first_dataset, call.env)
     IN call' = [call EXCEPT !.stage = "returned", !.toks = r.toks, !.ret = r.ret]
  /\ UNCHANGED <<merge_state, run, second, monitor, dir, available, files,
                 files_per_batch, wpc, batch_num, has_progress, batch_progress,
                 loc, outputs, uivars, io_errors_left, hist, pollvars>>

SpecFileCall == InitFileCall /\ [][ProcessSingleFileStreamingSafe]_vars


(***************************************************************************)
(* A MergeState just constructed, beside whatever an earlier merge left on *)
(* disk, and the calls of its three methods in any order.                  *)
(***************************************************************************)
InitMergeState ==
  /\ merge_state \in {[NoMergeState EXCEPT !.stage = "ready", !.sidecar = sc, !.temp = t] :
                        sc \in Sidecars, t \in BOOLEAN}
  /\ call = NoCall
  /\ run = 1
  /\ second = "none"
  /\ monitor = NoMonitor
  /\ dir = <<>>
  /\ available = 0
  /\ files = <<>>
  /\ files_per_batch = 1
  /\ wpc = "idle"
  /\ batch_num = 0
  /\ has_progress = FALSE
  /\ batch_progress = InitialProgress(0)
  /\ loc = NoLocals
  /\ outputs = <<>>
  /\ cancelled = FALSE
  /\ destroyed = FALSE
  /\ ui = "idle"
  /\ io_errors_left = 0
  /\ hist = NoHist
  /\ timer = FALSE
  /\ tpc = "idle"
  /\ t_batch = 0
  /\ t_files = 0
  /\ seen = <<0, 0>>
  /\ percent = 0
  /\ shown = "none"
  /\ captured = NotCaptured

MergeStateFrame ==
  UNCHANGED <<call, run, second, monitor, dir, available, files, files_per_batch,
              wpc, batch_num, has_progress, batch_progress, loc, outputs, uivars,
              io_errors_left, hist, pollvars>>

\* lines 501-519: load_state().  before: the fields when it was called.
LoadState ==
  /\ merge_state.stage \in {"ready", "loaded"}
  /\ merge_state' =
       IF merge_state.sidecar.kind = "object"
       THEN [merge_state EXCEPT !.stage = "loaded",
                                !.before = merge_state.fields,
                                !.fields = Loaded(merge_state.sidecar.data),  \* 509-512
                                !.result = merge_state.temp]                  \* 515
       ELSE [merge_state EXCEPT !.stage = "loaded",                           \* 504, 517-519
                                !.before = merge_state.fields,
                                !.result = FALSE]
  /\ MergeStateFrame

\* lines 484-499: save_state().  open() raises and leaves the sidecar as it
\* was, or json.dump raises and leaves it cut short, or the object is written.
SaveState ==
  /\ merge_state.stage \in {"ready", "loaded"}
  /\ \E how \in {"ok", "open_error", "dump_error"} :
       merge_state' =
         [merge_state EXCEPT
            !.stage = "ready",
            !.sidecar = CASE how = "ok" -> [kind |-> "object", data |-> Saved(merge_state.fields)]
                          [] how = "dump_error" -> [kind |-> "unreadable", data |-> NoData]
                          [] OTHER -> @]
  /\ MergeStateFrame

\* lines 521-529: cleanup_state().  An os.remove that raises ends the method.
CleanupState ==
  /\ merge_state.stage \in {"ready", "loaded"}
  /\ \E how \in {"ok", "sidecar_error", "temp_error"} :
       /\ how = "sidecar_error" => merge_state.sidecar.kind # "missing"
       /\ how = "temp_error" => merge_state.temp
       /\ merge_state' =
            [merge_state EXCEPT
               !.stage = "ready",
               !.sidecar = IF how = "sidecar_error" THEN @ ELSE NoSidecar,
               !.temp = IF how = "ok" THEN FALSE ELSE @]
  /\ MergeStateFrame

NextMergeState == LoadState \/ SaveState \/ CleanupState

SpecMergeState == InitMergeState /\ [][NextMergeState]_vars

(***************************************************************************)
(* Properties.                                                             *)
(***************************************************************************)
Batches == DOMAIN outputs

HasFooter(b) ==
  /\ outputs[b].exists /\ outputs[b].closed
  /\ outputs[b].toks # <<>>
  /\ outputs[b].toks[Len(outputs[b].toks)] = BatchFooter

WorkerStopped == wpc \in {"returned", "done"}

\* The batch process_single_batch_threaded has just returned from.
JustReturned == wpc = "w3219"
CurrentBatch == batch_num + 1

RECURSIVE SumRecords(_)
SumRecords(fs) == IF fs = <<>> THEN 0 ELSE Head(fs).n + SumRecords(Tail(fs))

OkCount(fs) == Cardinality({j \in DOMAIN fs : fs[j].kind = "ok"})

LexLeq(p, q) == p[1] < q[1] \/ (p[1] = q[1] /\ p[2] <= q[2])

\* C1: whatever failure occurs during process_single_batch_threaded (an I/O
\* error of a write, an exception inside process_single_file_streaming_safe
\* after it began an entry, a memory pause), the batch output file that was
\* open is well-formed JSON once the function has returned.
C1_OutputValidOnReturn ==
  \A b \in Batches :
     (b \in hist.returned /\ outputs[b].exists) => ValidJSON(outputs[b].toks)

\* C2: the (current_batch, current_file) pairs on_timer_update reads during
\* one run are lexicographically non-decreasing.
C2_PollMonotone == [][LexLeq(seen, seen')]_vars

\* C3: without cancellation and close the worker eventually publishes
\* completed, and after that it changes nothing of batch_progress.
C3_CompletedThenFrozen ==
  /\ <>(batch_progress.completed)
  /\ [][batch_progress.completed => batch_progress' = batch_progress]_vars

\* C4: once cancellation has been requested the worker starts no further
\* input file.
C4_NoFileAfterCancel == ~hist.filesAfterCancel

\* C5: a run in which cancellation was requested never publishes completed,
\* and batch_progress never holds completed together with an error.
C5_CancelledNeverCompleted ==
  [][/\ ~(batch_progress'.completed /\ batch_progress'.error # "None")
     /\ (cancelled /\ ~batch_progress.completed) => ~batch_progress'.completed]_vars

\* C6: a run cancelled while a batch is in progress still finalizes that
\* batch's output file: once process_single_batch_threaded has returned the
\* footer is written and the file closed, and when the worker has stopped no
\* output file of the cancelled run lacks its footer.
C6_CancelledBatchFinalized ==
  /\ \A b \in Batches : (hist.cancelInBatch = b /\ b \in hist.returned) => HasFooter(b)
  /\ (cancelled /\ WorkerStopped) => \A b \in hist.attempted : HasFooter(b)

C6_Witness ==
  /\ hist.cancelInBatch = 1 /\ wpc = "returned"
  /\ batch_progress.error = "Cancelled by user"
  /\ TotalBatches = 2 /\ HasFooter(1) /\ ~outputs[2].exists

\* C7: a batch with one file that is truncated or not of the expected shape
\* (no memory pressure, no I/O error): the file adds nothing to the output,
\* every other file is merged, datasets_processed is the number of the other
\* files.
C7_BadFileContributesNothing ==
  (/\ JustReturned
   /\ hist.pausedAt[CurrentBatch] = -1 /\ CurrentBatch \notin hist.earlyPause
   /\ CurrentBatch \notin hist.io)
  => /\ loc.ret[1] = OkCount(BatchFiles(batch_num))
     /\ EntryCount(outputs[CurrentBatch].toks) = OkCount(BatchFiles(batch_num))
     /\ ValidJSON(outputs[CurrentBatch].toks)

\* C8: the memory monitor starts to ask for a pause after the k-th file of a
\* batch of well-formed files: process_single_batch_threaded stops before
\* file k+1, writes the footer, and the closed output holds exactly the
\* entries (and records) of the first k files.
C8_PauseAfterKFiles ==
  LET b == CurrentBatch
      k == hist.pausedAt[b]
      firstK == SubSeq(BatchFiles(batch_num), 1, k)
  IN (/\ JustReturned /\ k >= 0 /\ b \notin hist.earlyPause
      /\ \A j \in 1..k : firstK[j].kind = "ok")
     => /\ loc.i = k
        /\ HasFooter(b) /\ ValidJSON(outputs[b].toks)
        /\ EntryCount(outputs[b].toks) = k
        /\ RecordCount(outputs[b].toks) = SumRecords(firstK)
        /\ loc.ret = <<k, SumRecords(firstK)>>

C8_Witness ==
  /\ JustReturned /\ hist.pausedAt[CurrentBatch] = 1
  /\ CurrentBatch \notin hist.earlyPause
  /\ Len(BatchFiles(batch_num)) = 2
  /\ BatchFiles(batch_num)[1].kind = "ok"
  /\ EntryCount(outputs[CurrentBatch].toks) = 1

\* C9: when the batch output cannot be created the run fails: the error is
\* in batch_progress['error'], no further batch is attempted, completed is
\* never set.
C9_OpenErrorFailsRun ==
  \A b \in hist.openError :
     /\ ~batch_progress.completed
     /\ \A c \in hist.attempted : c <= b
     /\ (wpc \notin {"w3219", "w3227"}) => batch_progress.error # "None"

\* C10: a batch that fails with an error is not counted as successful, and
\* its failure does not keep the worker from attempting the next batch:
\* unless the application closes or the run is cancelled, the worker goes
\* from a failed batch n to batch n+1.
C10_FailedBatchNotCountedNextAttempted ==
  /\ batch_progress.successful_batches <= Cardinality(hist.returned \ hist.failed)
  /\ \A b \in hist.failed :
       \/ b = TotalBatches
       \/ b + 1 \in hist.attempted
       \/ (CurrentBatch = b /\ wpc \in {"w3219", "w3227"})
       \/ (batch_num = b /\ wpc \in {"w3196", "w3201", "w3210", "w3211", "w3212",
                                      "w3213", "w3217"})
       \/ (batch_num = b /\ wpc = "returned" /\ (destroyed \/ cancelled))

C10_Witness ==
  /\ 1 \in hist.failed /\ 2 \in hist.returned /\ 2 \notin hist.failed
  /\ wpc = "done" /\ batch_progress.successful_batches = 1

\* C11: completed is published only when every batch of the run has been
\* attempted: wherever batch_progress['completed'] is true, current_batch is
\* total_batches and process_single_batch_threaded has returned for each of
\* the batches 1..total_batches.
C11_CompletedOnlyAfterAllBatches ==
  batch_progress.completed =>
     /\ batch_progress.current_batch = batch_progress.total_batches
     /\ batch_progress.total_batches = TotalBatches
     /\ hist.attempted = 1..TotalBatches
     /\ hist.returned = 1..TotalBatches

C11_Witness ==
  /\ batch_progress.completed /\ TotalBatches = 2
  /\ hist.returned = {1, 2} /\ batch_progress.current_batch = 2
  /\ batch_progress.successful_batches = 1

\* C12: what on_timer_update reads is a consistent snapshot: the file index
\* it reads is at most the number of files of the batch it reads (the
\* batch percentage it computes never exceeds 100), and the batch number it
\* reads is at most total_batches.
C12_SnapshotConsistent ==
  /\ percent <= 100
  /\ t_batch <= TotalBatches

\* on_merge_local_spectra has planned and started the worker.
Planned == dir # <<>> /\ wpc \notin {"unplanned", "no_files"}

\* C13: the planned batch size is max(1, floor(safe_budget / (avg_file_size
\* * 2.5))) with safe_budget 20% of the available memory and avg_file_size
\* the total input size over the number of files; it is at least 1, also
\* with no memory available; the number of batches is
\* ceil(number_of_files / files_per_batch).
C13_PlannedBatchSize ==
  Planned =>
    LET n == Len(files)
        total == TotalSize(SpectraFiles(dir))
        k == files_per_batch
    IN /\ k >= 1
       /\ \/ (k = 1 /\ 2 * available * n < 2 * (25 * total))
          \/ (k * (25 * total) <= 2 * available * n
                /\ 2 * available * n < (k + 1) * (25 * total))
       /\ has_progress =>
            /\ (batch_progress.total_batches - 1) * k < n
            /\ n <= batch_progress.total_batches * k

C13_Witness ==
  /\ Planned /\ has_progress /\ Len(files) = 3
  /\ files_per_batch = 2 /\ batch_progress.total_batches = 2

\* C13 with no memory available.
C13_WitnessNoMemory ==
  /\ Planned /\ has_progress /\ available = 0 /\ Len(files) = 3
  /\ files_per_batch = 1 /\ batch_progress.total_batches = 3

\* The directory of three files of 10 KB, 0 bytes and 10 KB with 100 MB of
\* memory available.
ThreeFileScenario ==
  /\ Len(dir) = 3
  /\ dir[1].size = 10240 /\ dir[2].size = 0 /\ dir[3].size = 10240
  /\ available = 104857600

NoMemoryPause ==
  /\ \A b \in DOMAIN hist.pausedAt : hist.pausedAt[b] = -1
  /\ hist.earlyPause = {}

\* C14 as claimed: in the scenario planning gives files_per_batch = 2 and
\* the two batches [file1, file2] and [file3]; file2 gives no data and the
\* run ends with 2 datasets.
C14_ThreeFilesTwoBatches ==
  (ThreeFileScenario /\ Planned) =>
     /\ files_per_batch = 2
     /\ TotalBatches = 2
     /\ BatchFiles(0) = <<dir[1].file, dir[2].file>>
     /\ BatchFiles(1) = <<dir[3].file>>
     /\ (wpc = "done" /\ NoMemoryPause) => batch_progress.total_datasets = 2

\* C14 as amended: in the scenario file2 is dropped before planning (its
\* size is not above 100 bytes), planning gives files_per_batch = 819 and
\* the one batch [file1, file3], and without memory pressure the run ends
\* with 2 datasets.
C14_ThreeFilesOneBatch ==
  (ThreeFileScenario /\ Planned) =>
     /\ files = <<dir[1].file, dir[3].file>>
     /\ files_per_batch = 819
     /\ TotalBatches = 1
     /\ BatchFiles(0) = <<dir[1].file, dir[3].file>>
     /\ has_progress => batch_progress.total_batches = 1
     /\ (wpc = "done" /\ NoMemoryPause) =>
           /\ batch_progress.total_datasets = 2
           /\ batch_progress.completed
           /\ EntryCount(outputs[1].toks) = 2

C14_Witness ==
  /\ ThreeFileScenario /\ Planned /\ wpc = "done" /\ NoMemoryPause
  /\ files_per_batch = 819 /\ batch_progress.total_datasets = 2

\* C15: a file whose estimated expansion (2.5 times its size) exceeds the
\* safe budget (20% of the available memory) is alone in its batch, and a
\* plan is made whenever there are files to merge.
C15_OversizeFileAlone ==
  LET sf == SpectraFiles(dir) IN
  /\ (sf # <<>> /\ wpc # "unplanned") => Planned
  /\ Planned =>
       \A j \in 1..Len(sf) :
          (25 * sf[j].size > 2 * available)
             => Len(BatchFiles((j - 1) \div files_per_batch)) = 1

\* C16: the batches are contiguous slices of the input list, batch k (from
\* 0) holding the files at places k*files_per_batch+1 ..
\* min((k+1)*files_per_batch, N): every file is in exactly one batch, no
\* batch is empty, the batches are called in increasing order, and the
\* files of a batch are attempted in list order, each at most once.
C16_ContiguousBatchesInOrder ==
  LET N == Len(files)
      Place(k) == (StartIdx(k) + 1)..EndIdx(k)
  IN (wpc \notin {"unplanned", "no_files"}) =>
     /\ \A k \in 0..(TotalBatches - 1) :
          /\ Place(k) = (k * files_per_batch + 1)..Min((k + 1) * files_per_batch, N)
          /\ Place(k) # {}
          /\ BatchFiles(k) = [j \in 1..Cardinality(Place(k)) |-> files[k * files_per_batch + j]]
     /\ \A g \in 1..N :
          Cardinality({k \in 0..(TotalBatches - 1) : g \in Place(k)}) = 1
     /\ hist.batchOrder = [j \in 1..Len(hist.batchOrder) |-> j]
     /\ \A j \in 1..Len(hist.fileOrder) :
          /\ hist.fileOrder[j][2] \in Place(hist.fileOrder[j][1] - 1)
          /\ j > 1 => hist.fileOrder[j - 1][2] < hist.fileOrder[j][2]
     /\ (wpc = "done" /\ NoMemoryPause /\ hist.failed = {}) =>
          /\ Len(hist.fileOrder) = N
          /\ Len(hist.batchOrder) = TotalBatches

C16_Witness ==
  /\ wpc = "done" /\ Len(files) = 3 /\ files_per_batch = 2
  /\ hist.batchOrder = <<1, 2>>
  /\ hist.fileOrder = <<<<1, 1>>, <<1, 2>>, <<2, 3>>>>

\* should_pause_processing has returned, and the monitor has the default
\* thresholds.
Asked == monitor.stage = "asked"
DefaultThresholds == monitor.critical_threshold_percent = DefaultCriticalThreshold

\* C17: with the default thresholds and every query answered,
\* should_pause_processing returns true exactly when the system usage is
\* at 75% or more, or the process has grown by more than 500 MB since the
\* monitor was made, or the process uses more than 800 MB, or the system
\* usage is at 85% or more, or less than 200 MB are available.
C17_PauseExactlyAtHighOrCritical ==
  (Asked /\ DefaultThresholds /\ monitor.sys[1] /\ monitor.cur[1] /\ monitor.avail[1])
  => (monitor.result <=>
        \/ monitor.sys[2] >= 750
        \/ monitor.cur[2] - monitor.initial_memory_mb > 500
        \/ monitor.cur[2] > 800
        \/ monitor.sys[2] >= 850
        \/ monitor.avail[2] < 200)

\* C18: when a query of the OS failed (system usage, process memory or
\* available memory), should_pause_processing returns true.
C18_FailedQueryPauses ==
  (Asked /\ (~monitor.sys[1] \/ ~monitor.cur[1] \/ ~monitor.avail[1]))
  => monitor.result

\* C19: a record whose write raises is skipped: the other records of the
\* file are written, the entry is closed, and the call returns the number
\* of records written.
C19_BadRecordSkipped ==
  \A e \in hist.recordError :
     /\ e.closed
     /\ e.ret = files[e.place].n - 1

C21_SingleWorker == ~(WorkerAlive /\ second # "none")

\* C22: during one run batch_progress['current_batch'] starts at 0 when the
\* worker creates the dict, never decreases afterwards and never exceeds
\* batch_progress['total_batches'].
C22_CurrentBatchMonotone ==
  [][/\ (~has_progress /\ has_progress') => batch_progress'.current_batch = 0
     /\ has_progress => batch_progress'.current_batch >= batch_progress.current_batch
     /\ has_progress' => batch_progress'.current_batch <= batch_progress'.total_batches]_vars

C22_Witness ==
  /\ has_progress /\ wpc = "w3211"
  /\ batch_progress.total_batches >= 2
  /\ batch_progress.current_batch = batch_progress.total_batches

\* C25: on every exit path of process_single_batch_threaded taken after
\* open() succeeded, an exception raised while the header is written
\* included, the batch footer is the last thing written to the file.
C25_FooterOnEveryExit ==
  \A b \in hist.returned : (b \notin hist.openError) => HasFooter(b)

\* C27: a call of process_single_file_streaming_safe that returns 0 leaves
\* the batch output as it was before the call, so that inside the loop of
\* process_single_batch_threaded first_dataset is false exactly when the
\* output holds at least one dataset entry.
C27_ZeroMeansNothingWritten ==
  /\ [](InBatch => (loc.first_dataset <=> EntryCount(outputs[CurrentBatch].toks) = 0))
  /\ [][(/\ wpc = "w3337" /\ loc'.i = loc.i + 1
         /\ loc'.datasets_processed = loc.datasets_processed)
        => outputs' = outputs]_vars

\* The complete dataset entries, and the records, in the output files of
\* batches 1..b.
RECURSIVE EntriesWritten(_)
EntriesWritten(b) ==
  IF b = 0 THEN 0
  ELSE CountKind(outputs[b].toks, "entry_footer") + EntriesWritten(b - 1)

RECURSIVE RecordsInOutputs(_)
RecordsInOutputs(b) ==
  IF b = 0 THEN 0 ELSE RecordCount(outputs[b].toks) + RecordsInOutputs(b - 1)

\* C29: when the worker has stopped, batch_progress['total_datasets'] is
\* the number of dataset entries in the batch output files of the run and
\* batch_progress['total_spectra'] the number of records in them, also when
\* a batch ended with an error after writing entries; successful_batches
\* never exceeds current_batch.
C29_TotalsMatchOutputs ==
  /\ batch_progress.successful_batches <= batch_progress.current_batch
  /\ WorkerStopped =>
       /\ batch_progress.total_datasets = EntriesWritten(Len(outputs))
       /\ batch_progress.total_spectra = RecordsInOutputs(Len(outputs))

\* C26: load_state returns true exactly when a readable .merge_state
\* sidecar is present and the .temp file exists, and when it returns false
\* the four state fields are what they were before the call.
C26_LoadStateAllOrNothing ==
  merge_state.stage = "loaded"
  => /\ merge_state.result <=> (merge_state.sidecar.kind = "object" /\ merge_state.temp)
     /\ ~merge_state.result => merge_state.fields = merge_state.before

\* What a returned call leaves in the stream is a run of whole entries.
EntryClosed(c) ==
  Scan(IF c.is_first_dataset THEN "list_empty" ELSE "after_entry", c.toks) = "after_entry"

\* C23: the memory monitor is consulted before every chunk of a file of any
\* size: when it starts to answer TRUE before chunk k, the call writes the
\* records of the chunks before k only, closes the entry and returns their
\* number.
C23_PauseBeforeEachChunk ==
  (/\ call.stage = "returned" /\ call.f.kind = "ok"
   /\ ~call.env.pause0 /\ call.env.fault = NoFault /\ call.env.pauseFrom > 0)
  => LET plan == ChunkPlan(call.f.n, call.env.increase)
         done == Min((call.env.pauseFrom - 1) * plan[1], Min(plan[2], call.f.n))
     IN /\ RecordCount(call.toks) = done
        /\ call.ret = done
        /\ EntryClosed(call)

\* The record cap of lines 3076-3079 applies to the call.
Capped(c) ==
  /\ c.f.kind = "ok"
  /\ ChunkPlan(c.f.n, c.env.increase)[2] < c.f.n

\* What process_single_file_streaming_safe returns for a file of n records
\* merged in full, nothing failing.
ReturnInFull(n) ==
  ProcessFile(OkFile(n), TRUE,
              [pause0 |-> FALSE, pauseFrom |-> 0, increase |-> 0, fault |-> NoFault]).ret

\* C24: a call to which the record cap applies (more than 5000 records, a
\* load that raised memory use by more than 200 MB; no pause, no failing
\* write) writes 2000 records, the first 2000 of the file, and what it returns
\* tells the caller that the file was capped: it differs from what a call
\* returns that merged its file in full.
C24_CappedAndRecorded ==
  (/\ call.stage = "returned" /\ Capped(call)
   /\ ~call.env.pause0 /\ call.env.pauseFrom = 0 /\ call.env.fault = NoFault)
  => /\ RecordCount(call.toks) = LargeMaxSpectra
     /\ EntryClosed(call)
     /\ \A n \in FileRecordCounts : ReturnInFull(n) # call.ret

\* The "spectra_count" value of the entry a call has written.
RECURSIVE SpectraCountField(_)
SpectraCountField(toks) ==
  IF toks = <<>> THEN 0
  ELSE IF Head(toks)[1] = "entry_header" THEN Head(toks)[2]
  ELSE SpectraCountField(Tail(toks))

\* C28: in every entry a call has written and closed, "spectra_count" is
\* the number of records in the entry's "spectra" array, also when the file
\* was capped or the loop stopped for memory.
C28_SpectraCountMatches ==
  (call.stage = "returned" /\ call.toks # <<>> /\ EntryClosed(call))
  => SpectraCountField(call.toks) = RecordCount(call.toks)

\* C30: the dialog of a second run reports completion or an error only
\* after the worker of that run has set it: completion not before line
\* 3234 of the new worker.
C30_NoStaleCompletion ==
  (run >= 2 /\ shown = "completion") => wpc \in {"w3235", "done"}

=============================================================================
